---- MODULE Spec2Model ----
(***************************************************************************)
(* A model of backend/app.py: the upload/transcribe endpoint, the summary  *)
(* and quiz endpoints, and the quiz generator's response normalisation.    *)
(*                                                                         *)
(* Python values are tagged records, one field name per type, so that      *)
(* values of different Python types are never equal:                       *)
(*   None  [t |-> "null"]            bool  [t |-> "bool", b |-> TRUE]      *)
(*   int   [t |-> "int", i |-> 2]    float [t |-> "float", f |-> <<5, 2>>] *)
(*   str   [t |-> "str", s |-> <<"a", "b">>]   (a sequence of characters)  *)
(*   list  [t |-> "list", l |-> <<v1, v2>>]                                *)
(*   dict  [t |-> "dict", kv |-> << <<key, v>>, ... >>] (insertion order)  *)
(* A str on which the code works character by character (a transcript, a   *)
(* content type, a correct_answer, a dict key) is the sequence of its      *)
(* characters.  The text of a message the code only builds and hands on    *)
(* is kept as whole tokens: <<"Error generating quiz: ", "<msg>">>.        *)
(***************************************************************************)
EXTENDS Integers, Sequences, FiniteSets, TLC

\* ------------------------------------------------------------------------
\* Bounds of the model
\* ------------------------------------------------------------------------

\* The longest array of raw quiz entries the provider returns.
MaxEntries == 2

\* ------------------------------------------------------------------------
\* Python values
\* ------------------------------------------------------------------------

JNull == [t |-> "null"]

JBool(b) == [t |-> "bool", b |-> b]

JInt(i) == [t |-> "int", i |-> i]

JFloat(num, den) == [t |-> "float", f |-> <<num, den>>]

JStr(s) == [t |-> "str", s |-> s]

JList(l) == [t |-> "list", l |-> l]

JDict(kv) == [t |-> "dict", kv |-> kv]

\* A raised exception, and a returned value.
Raise(e) == [ok |-> FALSE, e |-> e]

Return(v) == [ok |-> TRUE, v |-> v]

\* The keys the code looks up.
K_question == <<"q", "u", "e", "s", "t", "i", "o", "n">>

K_questions == <<"q", "u", "e", "s", "t", "i", "o", "n", "s">>

K_options == <<"o", "p", "t", "i", "o", "n", "s">>

K_correct_answer ==
    <<"c", "o", "r", "r", "e", "c", "t", "_", "a", "n", "s", "w", "e", "r">>

K_foo == <<"f", "o", "o">>

K_bar == <<"b", "a", "r">>

\* dict: the keys, in insertion order.
dict_keys(d) == [k \in 1..Len(d.kv) |-> d.kv[k][1]]

dict_has(d, key) == \E k \in 1..Len(d.kv) : d.kv[k][1] = key

\* d[key] of a dict that has the key.
dict_get(d, key) ==
    d.kv[CHOOSE k \in 1..Len(d.kv) : d.kv[k][1] = key][2]

\* d[key] = v of a dict that has the key: the key keeps its place.
dict_set(d, key, v) ==
    JDict([k \in 1..Len(d.kv) |->
             IF d.kv[k][1] = key THEN <<key, v>> ELSE d.kv[k]])

\* sub in s, of two strs.
is_substring(sub, s) ==
    \E k \in 0..(Len(s) - Len(sub)) : SubSeq(s, k + 1, k + Len(sub)) = sub

\* `key in q`, key a str: a dict has the key, a str contains it, a list has
\* it as an element; any other q is not iterable (TypeError).
py_in(key, q) ==
    CASE q.t = "dict" -> Return(dict_has(q, key))
      [] q.t = "str" -> Return(is_substring(key, q.s))
      [] q.t = "list" -> Return(\E k \in 1..Len(q.l) : q.l[k] = JStr(key))
      [] OTHER -> Raise("TypeError")

\* q[key], key a str: only a dict can be indexed by a str.
py_getitem(q, key) ==
    CASE q.t = "dict" /\ dict_has(q, key) -> Return(dict_get(q, key))
      [] q.t = "dict" -> Raise("KeyError")
      [] OTHER -> Raise("TypeError")

\* The items `for q in v` visits: a list's elements, a str's characters, a
\* dict's keys; any other v is not iterable (TypeError).
py_iter(v) ==
    CASE v.t = "list" -> Return(v.l)
      [] v.t = "str" -> Return([k \in 1..Len(v.s) |-> JStr(<<v.s[k]>>)])
      [] v.t = "dict" -> Return([k \in 1..Len(v.kv) |-> JStr(v.kv[k][1])])
      [] OTHER -> Raise("TypeError")

\* len(v): a list, a str and a dict have a length; nothing else has.
py_len(v) ==
    CASE v.t = "list" -> Return(Len(v.l))
      [] v.t = "str" -> Return(Len(v.s))
      [] v.t = "dict" -> Return(Len(v.kv))
      [] OTHER -> Raise("TypeError")

\* The decimal digits, and a character str.isdigit() accepts that int()
\* rejects (superscript two, U+00B2).
DecimalDigits == <<"0", "1", "2", "3", "4", "5", "6", "7", "8", "9">>

SuperscriptTwo == "sup2"

is_decimal(c) == \E d \in 1..Len(DecimalDigits) : DecimalDigits[d] = c

digit_value(c) == (CHOOSE d \in 1..Len(DecimalDigits) : DecimalDigits[d] = c) - 1

\* s.isdigit(): non-empty, and every character is a digit.
str_isdigit(s) ==
    /\ Len(s) > 0
    /\ \A k \in 1..Len(s) : is_decimal(s[k]) \/ s[k] = SuperscriptTwo

RECURSIVE decimal_value(_)
decimal_value(s) ==
    IF Len(s) = 0 THEN 0
    ELSE 10 * decimal_value(SubSeq(s, 1, Len(s) - 1)) + digit_value(s[Len(s)])

\* int(s) of a str that passed isdigit(): ValueError unless every character
\* is a decimal digit.
str_to_int(s) ==
    IF \A k \in 1..Len(s) : is_decimal(s[k])
    THEN Return(decimal_value(s))
    ELSE Raise("ValueError")

\* isinstance(v, int): bool is a subclass of int.
is_int_instance(v) == v.t \in {"int", "bool"}

\* The number an int instance compares as.
int_of(v) == IF v.t = "bool" THEN (IF v.b THEN 1 ELSE 0) ELSE v.i

\* ------------------------------------------------------------------------
\* Configuration read at start-up
\* ------------------------------------------------------------------------

VARIABLES
    GROQ_API_KEY,   \* TRUE iff the environment sets GROQ_API_KEY
    groq_client     \* TRUE iff the Groq client was built (None otherwise)

\* The client is built only when the key is set, and stays None when the
\* groq package cannot be imported.
StartupConfigs ==
    {c \in [GROQ_API_KEY : BOOLEAN, groq_client : BOOLEAN] :
        c.groq_client => c.GROQ_API_KEY}

\* ------------------------------------------------------------------------
\* The LLM provider, as the code sees it: one call either raises or returns
\* a message content.  A quiz content is a text that json.loads rejects
\* ([json |-> FALSE]) or the text of a JSON value ([json |-> TRUE, v |-> v]).
\* ------------------------------------------------------------------------

LLMRaises(msg) == [raises |-> TRUE, msg |-> msg]

LLMReturns(content) == [raises |-> FALSE, content |-> content]

NotJson == [json |-> FALSE]

JsonText(v) == [json |-> TRUE, v |-> v]

json_loads(text) ==
    IF text.json THEN Return(text.v) ELSE Raise("JSONDecodeError")

\* ------------------------------------------------------------------------
\* generate_quiz_questions
\* ------------------------------------------------------------------------

Tok(x) == JStr(<<x>>)

MockQuestions ==
    << JDict(<< <<K_question,
                  Tok("What is the main topic of this mock transcript?")>>,
                <<K_options,
                  JList(<<Tok("Artificial Intelligence"), Tok("Machine Learning"),
                          Tok("Data Science"), Tok("Mock Data")>>)>>,
                <<K_correct_answer, JInt(3)>> >>),
       JDict(<< <<K_question, Tok("This is a mock question because...")>>,
                <<K_options,
                  JList(<<Tok("The GROQ_API_KEY is not set"),
                          Tok("The transcript is too short"),
                          Tok("The system is in testing mode"),
                          Tok("All of the above")>>)>>,
                <<K_correct_answer, JInt(0)>> >>) >>

\* The one question returned when parsing or normalising raised e.
ParseErrorQuestion(e) ==
    JDict(<< <<K_question, JStr(<<"Error parsing quiz questions: ", e>>)>>,
             <<K_options,
               JList(<<Tok("Error"), Tok("Try again"), Tok("Check logs"),
                       Tok("Contact support")>>)>>,
             <<K_correct_answer, JInt(2)>> >>)

\* The one question returned when the provider call raised e.
GenerateErrorQuestion(e) ==
    JDict(<< <<K_question, JStr(<<"Error generating quiz: ", e>>)>>,
             <<K_options,
               JList(<<Tok("Error"), Tok("Try again"), Tok("Check API key"),
                       Tok("Contact support")>>)>>,
             <<K_correct_answer, JInt(2)>> >>)

\* The value of the first item of a dict that is a non-empty list, if any.
first_nonempty_list(d) ==
    LET hits == {k \in 1..Len(d.kv) :
                    d.kv[k][2].t = "list" /\ Len(d.kv[k][2].l) > 0}
    IN  IF hits = {}
        THEN Raise("ValueError")
        ELSE Return(d.kv[CHOOSE k \in hits : \A h \in hits : k <= h][2])

\* The `questions` the validation loop iterates over.
extract_questions(quiz_data) ==
    IF quiz_data.t = "dict" /\ dict_has(quiz_data, K_questions)
    THEN Return(dict_get(quiz_data, K_questions))
    ELSE IF quiz_data.t = "list"
    THEN Return(quiz_data)
    ELSE IF quiz_data.t # "dict"
    THEN Raise("AttributeError")
    ELSE first_nonempty_list(quiz_data)

\* "question" in q and "options" in q and "correct_answer" in q
has_all_fields(q) ==
    LET a == py_in(K_question, q)
        b == py_in(K_options, q)
        c == py_in(K_correct_answer, q)
    IN  IF ~a.ok THEN a
        ELSE IF ~a.v THEN Return(FALSE)
        ELSE IF ~b.ok THEN b
        ELSE IF ~b.v THEN Return(FALSE)
        ELSE c

\* A str of digits becomes the int.
coerce_correct_answer(ca) ==
    IF ca.t = "str" /\ str_isdigit(ca.s)
    THEN LET n == str_to_int(ca.s)
         IN  IF n.ok THEN Return(JInt(n.v)) ELSE n
    ELSE Return(ca)

\* TRUE iff correct_answer is replaced by 0; len(q["options"]) is evaluated
\* only for an int instance that is not negative.
answer_is_invalid(ca, options) ==
    IF ~is_int_instance(ca) THEN Return(TRUE)
    ELSE IF int_of(ca) < 0 THEN Return(TRUE)
    ELSE LET n == py_len(options)
         IN  IF n.ok THEN Return(int_of(ca) >= n.v) ELSE n

\* The body of the loop for a q that has the three fields: the q appended.
clean_question(q) ==
    LET ca0 == py_getitem(q, K_correct_answer)
    IN  IF ~ca0.ok THEN ca0
        ELSE LET ca1 == coerce_correct_answer(ca0.v)
             IN  IF ~ca1.ok THEN ca1
                 ELSE LET q1 == dict_set(q, K_correct_answer, ca1.v)
                          bad == answer_is_invalid(ca1.v,
                                                   dict_get(q1, K_options))
                      IN  IF ~bad.ok THEN bad
                          ELSE IF bad.v
                          THEN Return(dict_set(q1, K_correct_answer, JInt(0)))
                          ELSE Return(q1)

\* for q in questions: ... validated_questions.append(q)
RECURSIVE validate_questions(_, _)
validate_questions(items, validated) ==
    IF Len(items) = 0 THEN Return(validated)
    ELSE LET q == Head(items)
             has == has_all_fields(q)
         IN  IF ~has.ok THEN has
             ELSE IF ~has.v THEN validate_questions(Tail(items), validated)
             ELSE LET c == clean_question(q)
                  IN  IF ~c.ok THEN c
                      ELSE validate_questions(Tail(items),
                                              Append(validated, c.v))

\* The inner try block: parse, locate the array, validate.
parse_quiz(quiz_text) ==
    LET data == json_loads(quiz_text)
    IN  IF ~data.ok THEN data
        ELSE LET questions == extract_questions(data.v)
             IN  IF ~questions.ok THEN questions
                 ELSE LET items == py_iter(questions.v)
                      IN  IF ~items.ok THEN items
                          ELSE validate_questions(items.v, <<>>)

\* TRUE iff the function calls the provider.
calls_provider == GROQ_API_KEY /\ groq_client

\* The list generate_quiz_questions returns; llm is what the one provider
\* call does.  transcript and num_questions only fill the prompt.
generate_quiz_questions(transcript, num_questions, llm) ==
    IF ~calls_provider THEN MockQuestions
    ELSE IF llm.raises THEN <<GenerateErrorQuestion(llm.msg)>>
    ELSE LET parsed == parse_quiz(llm.content)
         IN  IF parsed.ok THEN parsed.v ELSE <<ParseErrorQuestion(parsed.e)>>

\* ------------------------------------------------------------------------
\* What the provider may answer to a quiz prompt
\* ------------------------------------------------------------------------

Options4 == JList(<<Tok("A"), Tok("B"), Tok("C"), Tok("D")>>)

Options2 == JList(<<Tok("A"), Tok("B")>>)

\* A raw entry with the three fields.
Entry(options, correct_answer) ==
    JDict(<< <<K_question, Tok("Q")>>,
             <<K_options, options>>,
             <<K_correct_answer, correct_answer>> >>)

\* The raw entries an array is built from: well-formed ones, the repairs
\* the loop makes, and the shapes JSON allows beyond them.
EntryShapes ==
    << Entry(Options4, JInt(1)),
       Entry(Options4, JStr(<<"2">>)),
       Entry(Options4, JStr(<<"0", "3">>)),
       Entry(Options4, JInt(7)),
       Entry(Options4, JInt(-1)),
       Entry(Options4, JStr(<<"-", "1">>)),
       Entry(Options4, JFloat(5, 2)),
       Entry(Options4, JNull),
       Entry(Options4, JBool(TRUE)),
       Entry(Options4, JStr(<<SuperscriptTwo>>)),
       JDict(<< <<K_question, Tok("Q")>>, <<K_options, Options4>> >>),
       JDict(<< <<K_question, Tok("Q")>>, <<K_correct_answer, JInt(1)>> >>),
       Entry(Options2, JInt(1)),
       Entry(JList(<<>>), JInt(0)),
       Entry(JNull, JInt(0)),
       JInt(3) >>

\* Every array of n raw entries.
EntryArraysOfLen(n) ==
    { [k \in 1..n |-> EntryShapes[ix[k]]] :
        ix \in [1..n -> 1..Len(EntryShapes)] }

\* Every array of at most max raw entries.
EntryArrays(max) == UNION { EntryArraysOfLen(n) : n \in 0..max }

\* The shapes a JSON value that holds the array arr can take.
Wrappings(arr) ==
    { JList(arr),
      JDict(<< <<K_questions, JList(arr)>> >>),
      JDict(<< <<K_foo, JList(arr)>> >>),
      JDict(<< <<K_foo, JList(<<>>)>>, <<K_bar, JList(arr)>> >>),
      JDict(<< <<K_foo, Tok("x")>>, <<K_questions, JList(arr)>> >>) }

\* JSON values in which no array of entries is to be found.
NoArrayValues ==
    { JInt(5),
      JNull,
      Tok("x"),
      JDict(<<>>),
      JDict(<< <<K_foo, Tok("x")>> >>),
      JDict(<< <<K_foo, JList(<<>>)>> >>),
      JDict(<< <<K_questions, JStr(<<"a", "b">>)>> >>),
      JDict(<< <<K_questions, JDict(<<>>)>> >>),
      JDict(<< <<K_questions, JDict(<< <<K_foo, JInt(1)>> >>)>> >>),
      JDict(<< <<K_questions, JInt(5)>> >>),
      JDict(<< <<K_questions, JNull>> >>),
      JDict(<< <<K_questions, Tok("x")>>,
               <<K_foo, JList(<<Entry(Options4, JInt(1))>>)>> >>) }

\* The JSON values a reply may hold, with arrays of at most max entries.
QuizJsonValues(max) ==
    NoArrayValues \cup UNION { Wrappings(arr) : arr \in EntryArrays(max) }

\* What one provider call for a quiz does.
QuizProviderBehaviours(max) ==
    { LLMRaises("provider error") }
      \cup { LLMReturns(NotJson) }
      \cup { LLMReturns(JsonText(v)) : v \in QuizJsonValues(max) }

\* ------------------------------------------------------------------------
\* The quiz generator on its own: the inputs are drawn, the function is
\* applied once.
\* ------------------------------------------------------------------------

VARIABLES
    qg_pc,      \* "input" before the call, "returned" after it
    qg_args,    \* [transcript, num_questions, llm]
    qg_result   \* the list returned, <<>> before the call

qg_vars == <<qg_pc, qg_args, qg_result>>

QuizGenTranscripts == { <<"h", "i">> }

QuizGenCounts == {1, 10}

QuizGenIdle ==
    /\ qg_pc = "off"
    /\ qg_args = [transcript |-> <<>>, num_questions |-> 0,
                  llm |-> LLMRaises("none")]
    /\ qg_result = <<>>

\* The inputs of one call, drawn.
QuizGenInputs ==
    /\ \E c \in StartupConfigs :
          /\ GROQ_API_KEY = c.GROQ_API_KEY
          /\ groq_client = c.groq_client
    /\ qg_pc = "input"
    /\ \E tr \in QuizGenTranscripts, n \in QuizGenCounts,
          llm \in QuizProviderBehaviours(MaxEntries) :
          qg_args = [transcript |-> tr, num_questions |-> n, llm |-> llm]
    /\ qg_result = <<>>

QuizGenCall ==
    /\ qg_pc = "input"
    /\ qg_result' = generate_quiz_questions(qg_args.transcript,
                                            qg_args.num_questions,
                                            qg_args.llm)
    /\ qg_pc' = "returned"
    /\ UNCHANGED <<qg_args, GROQ_API_KEY, groq_client>>


\* ------------------------------------------------------------------------
\* Properties of the quiz generator (checked under SpecQuizGen)
\* ------------------------------------------------------------------------

\* A returned question with exactly 4 options and an integer correct_answer
\* that indexes one of them.
QuestionIsWellFormed(q) ==
    /\ q.t = "dict"
    /\ dict_has(q, K_options)
    /\ dict_has(q, K_correct_answer)
    /\ LET options == dict_get(q, K_options)
           ca == dict_get(q, K_correct_answer)
       IN  /\ options.t = "list"
           /\ Len(options.l) = 4
           /\ ca.t = "int"
           /\ 0 <= ca.i
           /\ ca.i < Len(options.l)

\* C2: on every path of generate_quiz_questions, every returned question has
\* exactly 4 options and an integer correct_answer with
\* 0 <= correct_answer < len(options).
C2_EveryQuestionWellFormed ==
    qg_pc = "returned" =>
        \A k \in 1..Len(qg_result) : QuestionIsWellFormed(qg_result[k])

\* The exceptions the inner try block can catch.
ParseErrors ==
    {"JSONDecodeError", "TypeError", "ValueError", "AttributeError", "KeyError"}

\* Exactly one synthetic "error" question describing a parse failure.
IsOneParseErrorQuestion(result) ==
    \E e \in ParseErrors : result = <<ParseErrorQuestion(e)>>

NoArray == [t |-> "none"]

\* The array the stated rules locate in a parsed value: the array itself; the
\* `questions` value of an object that has the key, when it is an array; of
\* any other object the first value that is a non-empty array.
StatedLocation(v) ==
    IF v.t = "list" THEN v
    ELSE IF v.t # "dict" THEN NoArray
    ELSE IF dict_has(v, K_questions)
    THEN (IF dict_get(v, K_questions).t = "list"
          THEN dict_get(v, K_questions) ELSE NoArray)
    ELSE LET hits == {k \in 1..Len(v.kv) :
                         v.kv[k][2].t = "list" /\ Len(v.kv[k][2].l) > 0}
         IN  IF hits = {} THEN NoArray
             ELSE v.kv[CHOOSE k \in hits : \A h \in hits : k <= h][2]

\* The provider was called and returned a content.
QuizGenParsedAReply ==
    /\ qg_pc = "returned"
    /\ calls_provider
    /\ ~qg_args.llm.raises

\* C6: the question array is located by the fixed rules (the result for a
\* wrapped array is the result for that array given directly), and a reply
\* that is not valid JSON, or in which no array can be located (an object
\* whose `questions` value is not an array included), yields exactly one
\* synthetic "error" question.
C6_LocateArrayOrOneErrorQuestion ==
    QuizGenParsedAReply =>
        LET text == qg_args.llm.content
            at == IF text.json THEN StatedLocation(text.v) ELSE NoArray
        IN  IF at = NoArray
            THEN IsOneParseErrorQuestion(qg_result)
            ELSE qg_result =
                   generate_quiz_questions(qg_args.transcript,
                                           qg_args.num_questions,
                                           LLMReturns(JsonText(at)))

\* An entry that has all of question, options and correct_answer.
StatedHasFields(e) ==
    /\ e.t = "dict"
    /\ dict_has(e, K_question)
    /\ dict_has(e, K_options)
    /\ dict_has(e, K_correct_answer)

\* A kept entry as stated: a correct_answer that is a string of digits is
\* that integer; one that is then not an integer, or not an index of the
\* entry's options, is 0.
StatedRepair(e) ==
    LET ca == dict_get(e, K_correct_answer)
        options == dict_get(e, K_options)
        n == py_len(options)
        coerced == IF ca.t = "str" /\ str_to_int(ca.s).ok /\ Len(ca.s) > 0
                   THEN JInt(str_to_int(ca.s).v) ELSE ca
        valid == /\ coerced.t = "int"
                 /\ n.ok
                 /\ 0 <= coerced.i
                 /\ coerced.i < n.v
    IN  dict_set(e, K_correct_answer, IF valid THEN coerced ELSE JInt(0))

\* The subsequence of the entries that have the three fields, each repaired.
RECURSIVE StatedValidation(_)
StatedValidation(arr) ==
    IF Len(arr) = 0 THEN <<>>
    ELSE IF StatedHasFields(Head(arr))
    THEN <<StatedRepair(Head(arr))>> \o StatedValidation(Tail(arr))
    ELSE StatedValidation(Tail(arr))

\* C7: for every located array of raw entries the validated output is the
\* subsequence, in order, of the entries that have question, options and
\* correct_answer; a digit-string correct_answer is coerced to the integer;
\* a correct_answer that is not an integer or is out of range becomes 0.
C7_KeepsEntriesWithAllFields ==
    QuizGenParsedAReply =>
        LET text == qg_args.llm.content
            at == IF text.json THEN StatedLocation(text.v) ELSE NoArray
        IN  at # NoArray => qg_result = StatedValidation(at.l)

\* ------------------------------------------------------------------------
\* The summary and quiz endpoints
\* ------------------------------------------------------------------------

\* How far past max_length the longest submitted transcript goes.
MaxOver == 1

summary_max_length == 16000

quiz_max_length == 16000

\* "\n[Transcript truncated due to length...]"
TruncationMarker ==
    << "\n", "[", "T", "r", "a", "n", "s", "c", "r", "i", "p", "t", " ",
       "t", "r", "u", "n", "c", "a", "t", "e", "d", " ", "d", "u", "e",
       " ", "t", "o", " ", "l", "e", "n", "g", "t", "h", ".", ".", ".",
       "]" >>

Min(a, b) == IF a < b THEN a ELSE b

Max(a, b) == IF a > b THEN a ELSE b

\* s[:n]
py_prefix(s, n) == SubSeq(s, 1, Min(Len(s), n))

\* The truncated_transcript of generate_summary_endpoint.
summary_truncate(transcript) ==
    IF Len(transcript) > summary_max_length
    THEN py_prefix(transcript, summary_max_length) \o TruncationMarker
    ELSE py_prefix(transcript, summary_max_length)

\* quiz_truncate with the length test off by one (>= for >).
quiz_truncate_marks_at_limit(transcript) ==
    IF Len(transcript) >= quiz_max_length
    THEN py_prefix(transcript, quiz_max_length) \o TruncationMarker
    ELSE py_prefix(transcript, quiz_max_length)

\* The truncated_transcript of generate_quiz_endpoint.
quiz_truncate(transcript) ==
    IF Len(transcript) > quiz_max_length
    THEN py_prefix(transcript, quiz_max_length) \o TruncationMarker
    ELSE py_prefix(transcript, quiz_max_length)

MockSummary == Tok("mock summary for development purposes")

\* generate_bullet_summary without its except clause: a provider failure
\* propagates to the endpoint.
generate_bullet_summary_propagates(transcript, llm) ==
    IF ~calls_provider THEN Return(MockSummary)
    ELSE IF llm.raises THEN Raise(llm.msg)
    ELSE Return(llm.content)

\* generate_bullet_summary: the str it returns; llm is what the one provider
\* call does.  The function has no path that raises.
generate_bullet_summary(transcript, llm) ==
    IF ~calls_provider THEN Return(MockSummary)
    ELSE IF llm.raises
    THEN Return(JStr(<<"Error generating summary: ", llm.msg>>))
    ELSE Return(llm.content)

\* raise HTTPException(status_code, detail): an Exception like any other.
HTTPException(status_code, detail) ==
    [ok |-> FALSE, e |-> "HTTPException",
     status_code |-> status_code, detail |-> detail]

status_text(status_code) ==
    CASE status_code = 400 -> "400"
      [] status_code = 500 -> "500"

\* str(e) of what was raised: "<status_code>: <detail>" for an
\* HTTPException, the exception's own text otherwise.
str_of_exception(raised) ==
    IF raised.e = "HTTPException"
    THEN <<status_text(raised.status_code), ": ", raised.detail>>
    ELSE <<raised.e>>

\* A num_questions field that the request body leaves out.
Absent == [t |-> "absent"]

\* QuizRequest.num_questions: Optional[int] = 5.
QuizRequest_num_questions(field) ==
    IF field = Absent THEN JInt(5) ELSE field

\* max(1, min(request.num_questions, 10)): None cannot be compared.
clamp_num_questions(n) ==
    IF n.t = "null" THEN Raise("TypeError")
    ELSE Return(Max(1, Min(n.i, 10)))

\* A QuizQuestion the response model accepts.
QuizQuestion_validates(q) ==
    /\ q.t = "dict"
    /\ dict_has(q, K_question) /\ dict_get(q, K_question).t = "str"
    /\ dict_has(q, K_options) /\ dict_get(q, K_options).t = "list"
    /\ \A k \in 1..Len(dict_get(q, K_options).l) :
          dict_get(q, K_options).l[k].t = "str"
    /\ dict_has(q, K_correct_answer)
    /\ is_int_instance(dict_get(q, K_correct_answer))

VARIABLES
    ep_pc,          \* "idle", or "responded" once a request was answered
    request,        \* [endpoint, transcript, num_questions] of the request
    response,       \* [status, success, detail, payload]
    summary_calls,  \* the arguments of each generate_bullet_summary call
    quiz_calls,     \* the arguments of each generate_quiz_questions call
    provider_log    \* what each provider call of the request did

ep_vars ==
    <<ep_pc, request, response, summary_calls, quiz_calls, provider_log>>

NoRequest == [endpoint |-> "none", transcript |-> <<>>, num_questions |-> Absent]

NoResponse == [status |-> 0, success |-> FALSE, detail |-> <<>>, payload |-> <<>>]

EndpointsIdle ==
    /\ ep_pc = "idle"
    /\ request = NoRequest
    /\ response = NoResponse
    /\ summary_calls = <<>>
    /\ quiz_calls = <<>>
    /\ provider_log = <<>>

Ok200(payload) ==
    [status |-> 200, success |-> TRUE, detail |-> <<>>, payload |-> payload]

Error(status, detail) ==
    [status |-> status, success |-> FALSE, detail |-> detail, payload |-> <<>>]

\* The transcripts submitted: short ones, and the lengths around max_length.
TranscriptLengths ==
    (0..2) \cup ((summary_max_length - 1)..(summary_max_length + MaxOver))

Transcript(n) == [k \in 1..n |-> <<"a", "b", "c">>[(k % 3) + 1]]

NumQuestionsFields ==
    {Absent, JNull} \cup {JInt(n) : n \in {-1, 0, 1, 3, 10, 11, 15}}

SummaryProviderBehaviours ==
    { LLMRaises("provider error"), LLMReturns(Tok("- a point")) }

\* The quiz replies the endpoint is run against.
EndpointQuizProviderBehaviours ==
    { LLMRaises("provider error"), LLMReturns(NotJson) }
      \cup { LLMReturns(JsonText(v)) :
               v \in Wrappings(<<EntryShapes[1], EntryShapes[2]>>) }

\* What each provider call of a generator did: one call when the client is
\* configured, none in stub mode.
provider_calls_of(llm) == IF calls_provider THEN <<llm>> ELSE <<>>

\* The try block of generate_summary_endpoint: what it returns or raises.
summary_try(transcript, llm) ==
    IF Len(transcript) = 0
    THEN HTTPException(400, "Transcript is required")
    ELSE generate_bullet_summary(summary_truncate(transcript), llm)

\* except Exception as e: raise HTTPException(500, prefix + str(e))
response_of(result, prefix) ==
    IF result.ok
    THEN Ok200(result.v)
    ELSE Error(500, <<prefix>> \o str_of_exception(result))

\* POST /api/generate-summary
GenerateSummaryEndpoint ==
    /\ ep_pc = "idle"
    /\ \E n \in TranscriptLengths, llm \in SummaryProviderBehaviours :
         LET transcript == Transcript(n)
         IN  /\ request' = [endpoint |-> "summary", transcript |-> transcript,
                            num_questions |-> Absent]
             /\ response' = response_of(summary_try(transcript, llm),
                                        "Error generating summary: ")
             /\ IF Len(transcript) = 0
                THEN UNCHANGED <<summary_calls, provider_log>>
                ELSE /\ summary_calls' =
                          Append(summary_calls, summary_truncate(transcript))
                     /\ provider_log' = provider_log \o provider_calls_of(llm)
    /\ ep_pc' = "responded"
    /\ UNCHANGED <<quiz_calls, GROQ_API_KEY, groq_client>>

\* The try block of generate_quiz_endpoint: what it returns or raises.
quiz_try(transcript, field, llm) ==
    LET num_questions ==
            clamp_num_questions(QuizRequest_num_questions(field))
    IN  IF Len(transcript) = 0
        THEN HTTPException(400, "Transcript is required")
        ELSE IF ~num_questions.ok
        THEN num_questions
        ELSE Return(generate_quiz_questions(quiz_truncate(transcript),
                                            num_questions.v, llm))

\* response_model=QuizResponse: a returned list that does not validate is
\* answered with 500 by the framework.
QuizResponse_of(resp) ==
    IF resp.status = 200
       /\ \E k \in 1..Len(resp.payload) :
             ~QuizQuestion_validates(resp.payload[k])
    THEN Error(500, <<"Internal Server Error">>)
    ELSE resp

\* POST /api/generate-quiz
GenerateQuizEndpoint ==
    /\ ep_pc = "idle"
    /\ \E n \in TranscriptLengths, field \in NumQuestionsFields,
          llm \in EndpointQuizProviderBehaviours :
         LET transcript == Transcript(n)
             num_questions ==
                 clamp_num_questions(QuizRequest_num_questions(field))
         IN  /\ request' = [endpoint |-> "quiz", transcript |-> transcript,
                            num_questions |-> field]
             /\ response' =
                  QuizResponse_of(response_of(quiz_try(transcript, field, llm),
                                              "Error generating quiz: "))
             /\ IF Len(transcript) = 0 \/ ~num_questions.ok
                THEN UNCHANGED <<quiz_calls, provider_log>>
                ELSE /\ quiz_calls' =
                          Append(quiz_calls,
                                 [transcript |-> quiz_truncate(transcript),
                                  num_questions |-> num_questions.v])
                     /\ provider_log' = provider_log \o provider_calls_of(llm)
    /\ ep_pc' = "responded"
    /\ UNCHANGED <<summary_calls, GROQ_API_KEY, groq_client>>

\* The response is sent; the server keeps nothing of the request.
CloseRequest ==
    /\ ep_pc = "responded"
    /\ ep_pc' = "idle"
    /\ request' = NoRequest
    /\ response' = NoResponse
    /\ summary_calls' = <<>>
    /\ quiz_calls' = <<>>
    /\ provider_log' = <<>>
    /\ UNCHANGED <<GROQ_API_KEY, groq_client>>


\* ------------------------------------------------------------------------
\* POST /api/transcribe
\*
\* A request is followed step by step (validate, open, copy, transcribe,
\* clean up, respond) and the steps of different requests interleave
\* freely, which covers one event loop as well as several worker processes
\* sharing the upload directory.  uuid.uuid4() is taken to return a value
\* it has not returned before.
\* ------------------------------------------------------------------------

\* The number of transcribe requests in flight or answered.
MaxRequests == 2

DEEPGRAM_API_KEY == TRUE

UUIDs == 1..MaxRequests

\* s.startswith(prefix)
startswith(s, prefix) ==
    Len(s) >= Len(prefix) /\ SubSeq(s, 1, Len(prefix)) = prefix

AudioPrefix == <<"a", "u", "d", "i", "o", "/">>

\* The declared content types of the uploads; None when the part declares
\* none.
ContentTypes ==
    { JNull,
      JStr(<<"a", "u", "d", "i", "o", "/", "m", "p", "3">>),
      JStr(<<"a", "u", "d", "i", "o">>),
      JStr(<<"v", "i", "d", "e", "o", "/", "m", "p", "4">>) }

\* The client's file names.
Filenames == { <<"a", ".", "m", "p", "3">>, <<"a">> }

\* os.path.splitext(name)[1]: from the last dot of the last path component,
\* unless only dots precede it there.
splitext_ext(name) ==
    LET seps == {k \in 1..Len(name) : name[k] = "/"}
        base == IF seps = {} THEN 0
                ELSE CHOOSE k \in seps : \A j \in seps : j <= k
        dots == {k \in (base + 1)..Len(name) : name[k] = "."}
        last == CHOOSE k \in dots : \A j \in dots : j <= k
    IN  IF dots = {} THEN <<>>
        ELSE IF \E j \in (base + 1)..(last - 1) : name[j] # "."
        THEN SubSeq(name, last, Len(name))
        ELSE <<>>

\* The name of a file of the upload directory: f"{uuid}{file_extension}".
unique_filename(uuid, ext) == [uuid |-> uuid, ext |-> ext]

NoPath == [uuid |-> 0, ext |-> <<>>]

\* What the transcription provider does with one file.
TranscriptionBehaviours ==
    { [raises |-> TRUE, msg |-> "provider error"],
      [raises |-> FALSE, msg |-> ""] }

\* transcribe_audio: the dict it returns, or the HTTPException it raises.
transcribe_audio(provider) ==
    IF ~DEEPGRAM_API_KEY
    THEN Return([transcript |-> "mock", has_sentences |-> FALSE])
    ELSE IF provider.raises
    THEN [ok |-> FALSE, e |-> "HTTPException", status_code |-> 500,
          detail |-> <<"Error during transcription: ", provider.msg>>]
    ELSE Return([transcript |-> "text", has_sentences |-> TRUE])

\* The try block of the endpoint: the dict is built from the result, and a
\* result without "sentences" raises KeyError.
transcribe_try(provider) ==
    LET result == transcribe_audio(provider)
    IN  IF result.ok /\ ~result.v.has_sentences
        THEN Raise("KeyError")
        ELSE result

\* if os.path.exists(file_path): os.remove(file_path)
remove_if_exists(dir, path) == dir \ {path}

\* finally without its os.remove: the files are kept.
finally_keeps_file(dir, path) == dir

\* The except clause's clean-up, and the finally clause's.
except_cleanup(dir, path) == remove_if_exists(dir, path)

finally_cleanup(dir, path) == remove_if_exists(dir, path)

VARIABLES
    upload_dir,   \* the names of the files in UPLOAD_DIR
    uuids_used,   \* the values uuid.uuid4() has returned
    reqs          \* the transcribe requests, by number

tr_vars == <<upload_dir, uuids_used, reqs>>

Requests == 1..MaxRequests

NewRequest ==
    [pc |-> "new", content_type |-> JNull, filename |-> <<>>,
     path |-> NoPath, created |-> FALSE, saved |-> FALSE,
     provider_calls |-> 0, outcome |-> "none", raised |-> Raise("none"),
     log |-> <<>>, status |-> 0, detail |-> <<>>]

TranscribeIdle ==
    /\ upload_dir = {}
    /\ uuids_used = {}
    /\ reqs = [r \in Requests |-> NewRequest]

Set(r, fields) == [reqs EXCEPT ![r] = fields @@ @]

\* The multipart upload arrives: file.content_type, file.filename.
Receive(r) ==
    /\ reqs[r].pc = "new"
    /\ \E ct \in ContentTypes, name \in Filenames :
          reqs' = Set(r, [pc |-> "received", content_type |-> ct,
                          filename |-> name])
    /\ UNCHANGED <<upload_dir, uuids_used>>

\* file.content_type.startswith('audio/'), then the unique file name.  None
\* has no startswith: the AttributeError is answered 500 by the framework.
Validate(r) ==
    /\ reqs[r].pc = "received"
    /\ LET ct == reqs[r].content_type
       IN  IF ct.t = "null"
           THEN /\ reqs' = Set(r, [pc |-> "done", status |-> 500,
                                   detail |-> <<"Internal Server Error">>])
                /\ UNCHANGED uuids_used
           ELSE IF ~startswith(ct.s, AudioPrefix)
           THEN /\ reqs' = Set(r, [pc |-> "done", status |-> 400,
                                   detail |-> <<"File must be an audio file">>])
                /\ UNCHANGED uuids_used
           ELSE \E u \in UUIDs \ uuids_used :
                  /\ uuids_used' = uuids_used \cup {u}
                  /\ reqs' = Set(r, [pc |-> "named",
                                     path |-> unique_filename(u,
                                                splitext_ext(reqs[r].filename))])
    /\ UNCHANGED upload_dir

\* open(file_path, "wb"): the file is created, or the open fails.
OpenUpload(r) ==
    /\ reqs[r].pc = "named"
    /\ \/ /\ upload_dir' = upload_dir \cup {reqs[r].path}
          /\ reqs' = Set(r, [pc |-> "opened", created |-> TRUE,
                             log |-> Append(reqs[r].log, "create")])
       \/ /\ reqs' = Set(r, [pc |-> "done", status |-> 500,
                             detail |-> <<"Error saving file: ", "OSError">>])
          /\ UNCHANGED upload_dir
    /\ UNCHANGED uuids_used

\* shutil.copyfileobj(file.file, buffer): the bytes are written, or the copy
\* fails and the endpoint answers 500.
CopyUpload(r) ==
    /\ reqs[r].pc = "opened"
    /\ \/ reqs' = Set(r, [pc |-> "saved", saved |-> TRUE,
                          log |-> Append(reqs[r].log, "save")])
       \/ reqs' = Set(r, [pc |-> "done", status |-> 500,
                          detail |-> <<"Error saving file: ", "OSError">>])
    /\ UNCHANGED <<upload_dir, uuids_used>>

\* await transcribe_audio(file_path), and the dict built from its result.
Transcribe(r) ==
    /\ reqs[r].pc = "saved"
    /\ \E provider \in TranscriptionBehaviours :
         LET result == transcribe_try(provider)
         IN  reqs' = Set(r, [pc |-> IF result.ok THEN "finally" ELSE "except",
                             provider_calls |-> reqs[r].provider_calls + 1,
                             outcome |-> IF result.ok THEN "returned"
                                         ELSE "raised",
                             raised |-> result,
                             log |-> Append(reqs[r].log, "transcribe")])
    /\ UNCHANGED <<upload_dir, uuids_used>>

\* The log of a request after a clean-up that changes dir into dir2.
log_after(r, dir, dir2) ==
    IF dir2 # dir THEN Append(reqs[r].log, "delete") ELSE reqs[r].log

\* except Exception as e: clean up, raise e
ExceptCleanup(r) ==
    /\ reqs[r].pc = "except"
    /\ upload_dir' = except_cleanup(upload_dir, reqs[r].path)
    /\ reqs' = Set(r, [pc |-> "finally",
                       log |-> log_after(r, upload_dir, upload_dir')])
    /\ UNCHANGED uuids_used

\* finally: clean up; then the dict is returned, or the exception answered.
FinallyCleanup(r) ==
    /\ reqs[r].pc = "finally"
    /\ upload_dir' = finally_cleanup(upload_dir, reqs[r].path)
    /\ LET raised == reqs[r].raised
       IN  reqs' =
             Set(r, [pc |-> "done",
                     log |-> log_after(r, upload_dir, upload_dir'),
                     status |-> IF reqs[r].outcome = "returned" THEN 200
                                ELSE 500,
                     detail |-> IF reqs[r].outcome = "returned" THEN <<>>
                                ELSE IF raised.e = "HTTPException"
                                THEN raised.detail
                                ELSE <<"Internal Server Error">>])
    /\ UNCHANGED uuids_used

TranscribeInit ==
    /\ GROQ_API_KEY = FALSE
    /\ groq_client = FALSE
    /\ EndpointsIdle
    /\ QuizGenIdle
    /\ TranscribeIdle

\* The transcribe endpoint touches nothing of the other endpoints.
TranscribeFrame == UNCHANGED <<GROQ_API_KEY, groq_client, ep_vars, qg_vars>>

TranscribeNext ==
    \/ \E r \in Requests : Receive(r) /\ TranscribeFrame
    \/ \E r \in Requests : Validate(r) /\ TranscribeFrame
    \/ \E r \in Requests : OpenUpload(r) /\ TranscribeFrame
    \/ \E r \in Requests : CopyUpload(r) /\ TranscribeFrame
    \/ \E r \in Requests : Transcribe(r) /\ TranscribeFrame
    \/ \E r \in Requests : ExceptCleanup(r) /\ TranscribeFrame
    \/ \E r \in Requests : FinallyCleanup(r) /\ TranscribeFrame

vars == <<GROQ_API_KEY, groq_client, ep_vars, qg_vars, tr_vars>>

Init ==
    /\ \E c \in StartupConfigs :
          /\ GROQ_API_KEY = c.GROQ_API_KEY
          /\ groq_client = c.groq_client
    /\ EndpointsIdle
    /\ QuizGenIdle
    /\ TranscribeIdle

Next ==
    \/ GenerateSummaryEndpoint /\ UNCHANGED <<qg_vars, tr_vars>>
    \/ GenerateQuizEndpoint /\ UNCHANGED <<qg_vars, tr_vars>>
    \/ CloseRequest /\ UNCHANGED <<qg_vars, tr_vars>>

Spec == Init /\ [][Next]_vars

QuizGenInit ==
    /\ QuizGenInputs
    /\ EndpointsIdle
    /\ TranscribeIdle

QuizGenNext == QuizGenCall /\ UNCHANGED <<ep_vars, tr_vars>>

SpecQuizGen == QuizGenInit /\ [][QuizGenNext]_vars

SpecTranscribe == TranscribeInit /\ [][TranscribeNext]_vars

\* ------------------------------------------------------------------------
\* Properties of the summary and quiz endpoints (checked under Spec)
\* ------------------------------------------------------------------------

\* C1: a request to either endpoint whose transcript is the empty string is
\* answered 400 with detail "Transcript is required", not 500, and neither
\* generator is invoked.
C1_EmptyTranscriptIs400 ==
    (ep_pc = "responded" /\ Len(request.transcript) = 0) =>
        /\ response.status = 400
        /\ response.detail = <<"Transcript is required">>
        /\ summary_calls = <<>>
        /\ quiz_calls = <<>>

\* The provider call of the answered request raised.
ProviderCallRaised ==
    /\ ep_pc = "responded"
    /\ calls_provider
    /\ \E k \in 1..Len(provider_log) : provider_log[k].raises

\* A str that embeds the message msg.
Embeds(str, msg) ==
    str.t = "str" /\ \E k \in 1..Len(str.s) : str.s[k] = msg

\* C5: with an LLM client configured, a provider call that raises never ends
\* the request in an error status: the summary endpoint answers success=true
\* with a summary embedding the error message, the quiz endpoint answers
\* success=true with exactly one synthetic question describing the failure;
\* the provider is called at most once per request.
C5_ProviderFailureDegrades ==
    /\ Len(provider_log) <= 1
    /\ ProviderCallRaised =>
          /\ response.status = 200
          /\ response.success
          /\ request.endpoint = "summary" =>
                Embeds(response.payload, provider_log[1].msg)
          /\ request.endpoint = "quiz" =>
                /\ Len(response.payload) = 1
                /\ Embeds(dict_get(response.payload[1], K_question),
                          provider_log[1].msg)

C5_Witness ==
    /\ ProviderCallRaised
    /\ request.endpoint = "quiz"
    /\ response.status = 200

\* What the generator is to receive for the transcript T.
StatedTruncation(T) ==
    IF Len(T) <= 16000 THEN T ELSE SubSeq(T, 1, 16000) \o TruncationMarker

\* C8: on both endpoints the text passed to the generator is the transcript
\* unchanged when its length is at most 16000, and its first 16000
\* characters followed by the truncation marker when it is longer.
C8_TruncationPolicy ==
    ep_pc = "responded" =>
        /\ \A k \in 1..Len(summary_calls) :
              summary_calls[k] = StatedTruncation(request.transcript)
        /\ \A k \in 1..Len(quiz_calls) :
              quiz_calls[k].transcript = StatedTruncation(request.transcript)
        /\ (request.endpoint = "summary" /\ Len(request.transcript) > 0) =>
              Len(summary_calls) = 1

C8_Witness ==
    /\ ep_pc = "responded"
    /\ Len(request.transcript) > 16000
    /\ Len(quiz_calls) = 1
    /\ Len(quiz_calls[1].transcript) = 16000 + Len(TruncationMarker)

\* C9: every schema-accepted quiz request with a non-empty transcript invokes
\* the quiz generator with a count in [1,10]: max(1, min(n, 10)) for the
\* requested n, and 5 when num_questions is omitted.
C9_CountClamped ==
    (ep_pc = "responded" /\ request.endpoint = "quiz"
        /\ Len(request.transcript) > 0) =>
        /\ Len(quiz_calls) = 1
        /\ quiz_calls[1].num_questions \in 1..10
        /\ request.num_questions = Absent =>
              quiz_calls[1].num_questions = 5
        /\ request.num_questions.t = "int" =>
              quiz_calls[1].num_questions =
                 Max(1, Min(request.num_questions.i, 10))

\* ------------------------------------------------------------------------
\* Properties of the transcribe endpoint (checked under SpecTranscribe)
\* ------------------------------------------------------------------------

Answered(r) == reqs[r].pc = "done"

\* C3: for every request whose upload was saved: the steps occur in the
\* order save file -> call transcription -> delete file, and the temporary
\* file no longer exists when the outcome is surfaced, both on success (200)
\* and on a transcription failure (500 carrying the provider's message).
C3_SavedFileDeletedBeforeOutcome ==
    \A r \in Requests :
        (Answered(r) /\ reqs[r].saved) =>
            /\ reqs[r].log = <<"create", "save", "transcribe", "delete">>
            /\ reqs[r].path \notin upload_dir
            /\ \/ reqs[r].outcome = "returned" /\ reqs[r].status = 200
               \/ /\ reqs[r].outcome = "raised"
                  /\ reqs[r].status = 500
                  /\ \E k \in 1..Len(reqs[r].detail) :
                        reqs[r].detail[k] = "provider error"

C3_Witness ==
    \E r1, r2 \in Requests :
        /\ Answered(r1) /\ reqs[r1].saved /\ reqs[r1].status = 200
        /\ Answered(r2) /\ reqs[r2].saved /\ reqs[r2].status = 500

\* The declared content type starts with "audio/".
DeclaresAudio(r) ==
    /\ reqs[r].content_type.t = "str"
    /\ startswith(reqs[r].content_type.s, AudioPrefix)

\* C4: an upload whose declared content type does not start with "audio/",
\* one that declares none included, is answered 400; no file is created and
\* the transcription provider is not called.
C4_NonAudioRejected400 ==
    \A r \in Requests :
        (Answered(r) /\ ~DeclaresAudio(r)) =>
            /\ reqs[r].status = 400
            /\ reqs[r].log = <<>>
            /\ ~reqs[r].created
            /\ reqs[r].provider_calls = 0

\* C10: under any interleaving every file in the upload directory was
\* created by exactly one request that has not yet returned its response;
\* no two requests share a file; a request that ended on any exit path, a
\* failure while saving the upload included, left no file of its own.
C10_FilesBelongToRunningRequests ==
    /\ \A f \in upload_dir :
          Cardinality({r \in Requests :
                          /\ reqs[r].created
                          /\ reqs[r].path = f
                          /\ ~Answered(r)}) = 1
    /\ \A r1, r2 \in Requests :
          (r1 # r2 /\ reqs[r1].path # NoPath) => reqs[r1].path # reqs[r2].path
    /\ \A r \in Requests :
          (Answered(r) /\ reqs[r].created) => reqs[r].path \notin upload_dir

====
